---- MODULE Spec2Model ----
(***************************************************************************)
(* Model of the SecureSphere credential vault core: the AuthService        *)
(* (PIN vault, session manager), the secure storage wrapper and migration  *)
(* of lib/key, and the PasswordService credential store.                   *)
(*                                                                         *)
(* JavaScript strings are sequences of one-word strings; every other       *)
(* JavaScript value is a record carrying a tag field t.  AES-GCM is the    *)
(* ideal authenticated cipher: a ciphertext opens under the key that       *)
(* sealed it and under no other key.                                       *)
(***************************************************************************)
EXTENDS Integers, Sequences, FiniteSets, TLC

\* ------------------------------------------------------------------ bounds
\* Date.now() runs from 0 to MaxTime; the session timeout is counted in the
\* same ticks; CLEAR_CACHE is refused once a value is wrapped MaxWrapDepth - 1
\* times, so that no value is ever wrapped more than MaxWrapDepth times
MaxTime == 2
DefaultTimeoutTicks == 1
MaxWrapDepth == 2
\* STORE_CREDENTIALS is refused once MaxBackupRecords backup records exist
MaxBackupRecords == 2
\* IMPORT_CREDENTIALS is refused once MaxStoredCredentials records are stored
MaxStoredCredentials == 2

\* QR login sessions started in one run
MaxQrSessions == 3

\* ------------------------------------------------------- program constants
PadLength == 32
MaxBackups == 10
MaxRetries == 3

\* ---------------------------------------------------------- input domains
M1 == <<"legal", "winner">>
M2 == <<"zoo", "wrong">>
BadMnemonic == <<"invalid", "mnemonic">>
ValidMnemonics == {M1, M2}
\* a seed phrase argument that is falsy (empty, or not given)
EmptySeed == <<>>
Mnemonics == {M1, M2, BadMnemonic}

Pin1 == <<"1">>
Pin10 == <<"1", "0">>
Pin2 == <<"2">>
Pins == {Pin1, Pin10, Pin2}

\* credential records; a field that is absent is the empty string
LoginRecord(w, u, p) ==
  [t |-> "object", type |-> "login", website |-> w, username |-> u, password |-> p,
   name |-> "", seedPhrase |-> ""]

WalletRecord(n, sp) ==
  [t |-> "object", type |-> "wallet", website |-> "", username |-> "", password |-> "",
   name |-> n, seedPhrase |-> sp]

Cred1 == LoginRecord("a.com", "u", "p")
Cred2 == LoginRecord("b.com", "u", "p")
Cred3 == WalletRecord("w", "legal winner")
CredNoPassword == LoginRecord("c.com", "u", "")
CredBlankUser == LoginRecord("d.com", " ", "p")
CredNoSeed == WalletRecord("w2", "")

CredLists == {<<Cred1>>, <<Cred2, Cred1>>}

\* batches handed to importCredentials
Batches == {<<Cred3>>, <<Cred2, CredNoPassword>>, <<CredBlankUser, CredNoSeed>>, <<>>}

\* the storage access of a handler that reports chrome.runtime.lastError
StorePinFails == {"none", "init.get", "set"}
VerifyPinFails == {"none", "get", "init.get"}
LoginFails == {"none", "init.get", "init.set"}
ChangePinFails == {"none", "set"}
ResetFails == {"none", "get", "set"}

\* ------------------------------------------------------- JavaScript values
Null == [t |-> "null"]
Undefined == [t |-> "undefined"]
Bool(b) == [t |-> "boolean", b |-> b]
Str(s) == [t |-> "string", s |-> s]
Arr(a) == [t |-> "array", a |-> a]
Num(n) == [t |-> "number", n |-> n]

Truthy(v) ==
  CASE v.t = "null" -> FALSE
    [] v.t = "undefined" -> FALSE
    [] v.t = "boolean" -> v.b
    [] v.t = "string" -> v.s # <<>>
    [] v.t = "number" -> v.n # 0
    [] OTHER -> TRUE

\* String.prototype.padEnd(n, ch)
padEnd(s, n, ch) ==
  IF Len(s) >= n THEN s ELSE s \o [i \in 1..(n - Len(s)) |-> ch]

\* bip39.validateMnemonic: the checksum test of the word list
validateSeedPhrase(m) == m \in ValidMnemonics

\* bip39.mnemonicToSeed: PBKDF2 of the phrase, no validation
mnemonicToSeed(m) == [t |-> "seed", of |-> m]

\* ------------------------------------------------------------------- keys
generateKeyFromSeedBytes(seed) == [t |-> "key", kdf |-> "seed32", of |-> seed.of]

generateStorageEncryptionKey(m) == [t |-> "key", kdf |-> "storage", of |-> m]

pinDerivedKey(pin) == [t |-> "key", kdf |-> "pin", of |-> padEnd(pin, PadLength, "0")]

\* seed.slice(a, b): part names the slice
seedSlice(seed, part) == [t |-> "bytes", part |-> part, of |-> seed.of]

\* crypto.subtle.exportKey('raw', key) of the extractable key that
\* generateKeyFromSeedBytes imports from the first 32 bytes of the seed
exportKey(key) == [t |-> "bytes", part |-> "0..32", of |-> key.of]

\* toHexString with its '0x' prefix
toHexString(bytes) == [t |-> "hex", of |-> bytes]

\* GENERATE_KEYS: the response
generateKeys(m) ==
  IF m = <<>>
    THEN [op |-> "generateKeys", success |-> FALSE, error |-> "Seed phrase is required"]
  ELSE [op |-> "generateKeys", success |-> TRUE, error |-> "",
        rawKey |-> exportKey(generateKeyFromSeedBytes(mnemonicToSeed(m))),
        privateKey |-> toHexString(seedSlice(mnemonicToSeed(m), "0..32")),
        publicKey |-> toHexString(seedSlice(mnemonicToSeed(m), "32..64"))]

\* ------------------------------------------------- lib/password envelopes
encryptData(data, key) == [t |-> "envelope", sealedBy |-> key, data |-> data]

HasIvData(x) == x.t \in {"envelope", "storageEnvelope"}

\* crypto.subtle.decrypt throws unless the object carries iv and data that
\* were produced under this key (sealedBy stands for the iv/tag binding)
decryptData(x, key) ==
  IF HasIvData(x) /\ x.sealedBy = key
    THEN [ok |-> TRUE, v |-> x.data]
    ELSE [ok |-> FALSE, v |-> Undefined]

\* ------------------------------------------------------ JSON text of a value
JSONstringify(v) == [t |-> "json", of |-> v]

\* ----------------------------------------------- lib/key storage envelopes
\* (the envelope's iv, version and timestamp fields are read by no code path
\* other than AES-GCM itself and are left out)
\* Strings are sequences of one-character (or one-word) strings.
Digits == <<"0", "1", "2", "3", "4", "5", "6", "7", "8", "9">>

DigitValue(ch) == (CHOOSE d \in 1..10 : Digits[d] = ch) - 1

\* Number.prototype.toString of a natural number
RECURSIVE toString(_)
toString(n) ==
  IF n < 10 THEN <<Digits[n + 1]>>
  ELSE toString(n \div 10) \o <<Digits[(n % 10) + 1]>>

\* the string is the JSON text of a natural number
IsNumeral(s) ==
  /\ s # <<>>
  /\ \A i \in 1..Len(s) : \E d \in 1..10 : Digits[d] = s[i]
  /\ Len(s) > 1 => s[1] # "0"

RECURSIVE NumeralValue(_)
NumeralValue(s) ==
  IF s = <<>> THEN 0
  ELSE 10 * NumeralValue(SubSeq(s, 1, Len(s) - 1)) + DigitValue(s[Len(s)])

\* the string is a JSON text: JSON.parse of it does not throw
IsJsonText(s) == IsNumeral(s) \/ s \in {<<"true">>, <<"false">>, <<"null">>}

\* JSON.parse of a string that is a JSON text
parseJsonText(s) ==
  CASE s = <<"true">> -> Bool(TRUE)
    [] s = <<"false">> -> Bool(FALSE)
    [] s = <<"null">> -> Null
    [] OTHER -> Num(NumeralValue(s))

\* the text encryptStorageData encrypts: a string goes in as it is, anything
\* else as its JSON text.  A string that is itself a JSON text is the same
\* text as the JSON text of the value it spells.
dataString(v) ==
  IF v.t = "string" /\ ~IsJsonText(v.s) THEN v
  ELSE IF v.t = "string" THEN JSONstringify(parseJsonText(v.s))
  ELSE JSONstringify(v)

encryptStorageData(v, key) ==
  [t |-> "storageEnvelope", sealedBy |-> key, data |-> dataString(v)]

\* an object flagged encrypted that lacks iv or data, or carries an iv and
\* data no encryption produced
FlaggedEncrypted(x) ==
  x.t = "object" /\ "encrypted" \in DOMAIN x /\ Truthy(x.encrypted)

decryptStorageData(x, key) ==
  IF FlaggedEncrypted(x)
    THEN [ok |-> FALSE, v |-> Undefined]
  ELSE IF x.t # "storageEnvelope"
    THEN [ok |-> TRUE, v |-> x]
    ELSE IF x.sealedBy # key
      THEN [ok |-> FALSE, v |-> Undefined]
      ELSE [ok |-> TRUE, v |-> IF x.data.t = "json" THEN x.data.of ELSE x.data]

\* ------------------------------------------------------- persistent store
StoreKeys == {"firstTimeSetup", "hasEncryptedStorage", "storageVersion",
              "pinCode", "encryptedSeedPhrase", "storedSeedPhrase",
              "hasSeedPhrase", "credentials", "backups", "currentBackupId"}

skipEncryption == {"firstTimeSetup", "hasEncryptedStorage", "storageVersion"}

Version10 == Str(<<"1.0">>)

\* chrome.storage.local.set(items)
rawSet(st, items) ==
  [k \in StoreKeys |-> IF k \in DOMAIN items THEN items[k] ELSE st[k]]

secureStorageSet(st, items, key) ==
  LET enc == [k \in DOMAIN items |->
                IF k \in skipEncryption THEN items[k]
                ELSE encryptStorageData(items[k], key)]
      marked == [k \in (DOMAIN items) \cup {"hasEncryptedStorage", "storageVersion"} |->
                   CASE k = "hasEncryptedStorage" -> Bool(TRUE)
                     [] k = "storageVersion" -> Version10
                     [] OTHER -> enc[k]]
  IN rawSet(st, marked)

\* secureStorageGet: ok is FALSE when a value fails to decrypt
secureStorageGet(st, keys, key) ==
  LET dec == [k \in keys |->
                IF k \in skipEncryption THEN [ok |-> TRUE, v |-> st[k]]
                ELSE decryptStorageData(st[k], key)]
  IN [ok |-> \A k \in keys : dec[k].ok, v |-> [k \in keys |-> dec[k].v]]

\* AuthService.getSecureStorage().set / .get: raw access when no key is held
wrapperSet(st, items, key) ==
  IF key = Null THEN rawSet(st, items) ELSE secureStorageSet(st, items, key)

wrapperGet(st, keys, key) ==
  IF key = Null THEN [ok |-> TRUE, v |-> [k \in keys |-> st[k]]]
  ELSE secureStorageGet(st, keys, key)

\* a migration that does not look at the marker
migrateToEncryptedStorage_noMarkerCheck(st, key) ==
  [k \in StoreKeys |->
     CASE k = "hasEncryptedStorage" -> Bool(TRUE)
       [] k = "storageVersion" -> Version10
       [] k \in skipEncryption -> st[k]
       [] st[k] \notin {Undefined, Null} -> encryptStorageData(st[k], key)
       [] OTHER -> st[k]]

migrateToEncryptedStorage(st, key) ==
  IF Truthy(st["hasEncryptedStorage"]) THEN st
  ELSE [k \in StoreKeys |->
          CASE k = "hasEncryptedStorage" -> Bool(TRUE)
            [] k = "storageVersion" -> Version10
            [] k \in skipEncryption -> st[k]
            [] st[k] \notin {Undefined, Null} -> encryptStorageData(st[k], key)
            [] OTHER -> st[k]]

\* encryptStorageData throws on a null key, so a migration that has a value
\* to encrypt throws
migrationThrows(st, key) ==
  /\ ~Truthy(st["hasEncryptedStorage"])
  /\ key = Null
  /\ \E k \in StoreKeys \ skipEncryption : st[k] \notin {Undefined, Null}

verifyStorageEncryption(key) ==
  LET testData == [t |-> "object", test |-> "encryption_test"]
      decrypted == decryptStorageData(encryptStorageData(testData, key), key)
  IN decrypted.ok /\ JSONstringify(decrypted.v) = JSONstringify(testData)

\* ------------------------------------------------------------ AuthService
VARIABLES stor, currentStorageKey, currentUserSession, sessionTimeout, now, ret,
          storePinCall, port, migration, qr

vars == <<stor, currentStorageKey, currentUserSession, sessionTimeout, now, ret,
          storePinCall, port, migration, qr>>

\* the variables of the AuthService and of the store
authVars == <<stor, currentStorageKey, currentUserSession, sessionTimeout, now, ret,
              storePinCall>>

\* storePinCall is the storePin call in flight when its awaits are taken one
\* at a time: where it is suspended, and its arguments
Idle == [pc |-> "idle"]

ErrStorage == "storage error"
ErrMigration == "Storage encryption migration failed: storage error"
ErrDecryptStorage == "Failed to decrypt storage data - possible corruption or wrong key"
ErrInvalidPin == "Invalid PIN"
ErrPinNotSet == "PIN not set or seed phrase not found"
ErrDecrypt == "OperationError"

\* initializeStorageEncryption: the key is kept only when the migration went
\* through; a throw resets it to null
initializeStorageEncryption(st, m, fail) ==
  LET key == generateStorageEncryptionKey(m)
      marked == Truthy(st["hasEncryptedStorage"])
  IN IF ~verifyStorageEncryption(key)
       THEN [ok |-> FALSE, stor |-> st, key |-> Null,
             error |-> "Storage encryption verification failed"]
     ELSE IF fail = "init.get" \/ (fail = "init.set" /\ ~marked)
       THEN [ok |-> FALSE, stor |-> st, key |-> Null, error |-> ErrMigration]
     ELSE [ok |-> TRUE, stor |-> migrateToEncryptedStorage(st, key),
           key |-> key, error |-> ""]

createUserSession(m, time) ==
  [t |-> "session", seedPhrase |-> m, timestamp |-> time, isActive |-> TRUE]

storePinItems(pin, m) ==
  [k \in {"pinCode", "encryptedSeedPhrase", "storedSeedPhrase", "hasSeedPhrase"} |->
     CASE k = "pinCode" ->
            encryptData(Str(pin), generateKeyFromSeedBytes(mnemonicToSeed(m)))
       [] k = "encryptedSeedPhrase" -> encryptData(Str(m), pinDerivedKey(pin))
       [] k = "storedSeedPhrase" -> Str(m)
       [] OTHER -> Bool(TRUE)]

\* a storePin that writes the two envelopes in two sets, the second of which
\* can fail
storePin_twoWrites(st, key, pin, m, fail) ==
  LET init == IF key = Null THEN initializeStorageEncryption(st, m, fail)
              ELSE [ok |-> TRUE, stor |-> st, key |-> key, error |-> ""]
      first == [k \in {"pinCode"} |-> storePinItems(pin, m)[k]]
  IN IF ~init.ok
       THEN [stor |-> init.stor, key |-> init.key, success |-> FALSE,
             error |-> init.error]
     ELSE IF fail = "set"
       THEN [stor |-> wrapperSet(init.stor, first, init.key), key |-> init.key,
             success |-> FALSE, error |-> ErrStorage]
     ELSE [stor |-> wrapperSet(init.stor, storePinItems(pin, m), init.key),
           key |-> init.key, success |-> TRUE, error |-> ""]

\* AuthService.storePin, run to completion
storePin(st, key, pin, m, fail) ==
  LET init == IF key = Null THEN initializeStorageEncryption(st, m, fail)
              ELSE [ok |-> TRUE, stor |-> st, key |-> key, error |-> ""]
  IN IF ~init.ok
       THEN [stor |-> init.stor, key |-> init.key, success |-> FALSE,
             error |-> init.error]
     ELSE IF fail = "set"
       THEN [stor |-> init.stor, key |-> init.key, success |-> FALSE,
             error |-> ErrStorage]
     ELSE [stor |-> wrapperSet(init.stor, storePinItems(pin, m), init.key),
           key |-> init.key, success |-> TRUE, error |-> ""]

\* a verifyPin that stops at the first confirmation: the seed phrase opened
\* under the PIN-derived key
verifyPin_firstConfirmationOnly(st, key, sess, pin, time, fail) ==
  LET got == wrapperGet(st, {"pinCode", "encryptedSeedPhrase"}, key)
      no(k, e) == [stor |-> st, key |-> k, session |-> sess, verified |-> FALSE,
                   seedPhrase |-> <<>>, error |-> e]
  IN IF fail = "get" THEN no(key, ErrStorage)
     ELSE IF ~got.ok THEN no(key, ErrDecryptStorage)
     ELSE IF ~Truthy(got.v["pinCode"]) \/ ~Truthy(got.v["encryptedSeedPhrase"])
       THEN no(key, ErrPinNotSet)
     ELSE
       LET seedDec == decryptData(got.v["encryptedSeedPhrase"], pinDerivedKey(pin))
       IN IF ~seedDec.ok THEN no(key, ErrInvalidPin)
          ELSE
            LET m == seedDec.v.s
                init == IF key = Null THEN initializeStorageEncryption(st, m, fail)
                        ELSE [ok |-> TRUE, stor |-> st, key |-> key, error |-> ""]
            IN IF ~init.ok
                 THEN [no(init.key, init.error) EXCEPT !.stor = init.stor]
               ELSE [stor |-> init.stor, key |-> init.key,
                     session |-> createUserSession(m, time), verified |-> TRUE,
                     seedPhrase |-> m, error |-> ""]

\* a verifyPin that wipes the vault when the PIN does not open it
verifyPin_wipesOnFailure(st, key, sess, pin, time, fail) ==
  LET got == wrapperGet(st, {"pinCode", "encryptedSeedPhrase"}, key)
      no(k, e) == [stor |-> st, key |-> k, session |-> sess, verified |-> FALSE,
                   seedPhrase |-> <<>>, error |-> e]
      wiped == rawSet(st, [k \in {"pinCode", "encryptedSeedPhrase"} |-> Null])
  IN IF fail = "get" THEN no(key, ErrStorage)
     ELSE IF ~got.ok THEN no(key, ErrDecryptStorage)
     ELSE IF ~Truthy(got.v["pinCode"]) \/ ~Truthy(got.v["encryptedSeedPhrase"])
       THEN no(key, ErrPinNotSet)
     ELSE
       LET seedDec == decryptData(got.v["encryptedSeedPhrase"], pinDerivedKey(pin))
       IN IF ~seedDec.ok THEN [no(key, ErrInvalidPin) EXCEPT !.stor = wiped]
          ELSE
            LET m == seedDec.v.s
                init == IF key = Null THEN initializeStorageEncryption(st, m, fail)
                        ELSE [ok |-> TRUE, stor |-> st, key |-> key, error |-> ""]
                pinDec == decryptData(got.v["pinCode"],
                                      generateKeyFromSeedBytes(mnemonicToSeed(m)))
            IN IF ~init.ok
                 THEN [no(init.key, init.error) EXCEPT !.stor = init.stor]
               ELSE IF ~pinDec.ok
                 THEN [no(init.key, ErrDecrypt) EXCEPT !.stor = init.stor]
               ELSE IF pinDec.v = Str(pin)
                 THEN [stor |-> init.stor, key |-> init.key,
                       session |-> createUserSession(m, time), verified |-> TRUE,
                       seedPhrase |-> m, error |-> ""]
               ELSE [no(init.key, ErrInvalidPin) EXCEPT !.stor = wiped]

\* verifyPin creating the session once the seed phrase is recovered, before
\* the decrypted PIN is compared
verifyPin_sessionBeforeSecondConfirmation(st, key, sess, pin, time, fail) ==
  LET got == wrapperGet(st, {"pinCode", "encryptedSeedPhrase"}, key)
      no(k, e) == [stor |-> st, key |-> k, session |-> sess, verified |-> FALSE,
                   seedPhrase |-> <<>>, error |-> e]
  IN IF fail = "get" THEN no(key, ErrStorage)
     ELSE IF ~got.ok THEN no(key, ErrDecryptStorage)
     ELSE IF ~Truthy(got.v["pinCode"]) \/ ~Truthy(got.v["encryptedSeedPhrase"])
       THEN no(key, ErrPinNotSet)
     ELSE
       LET seedDec == decryptData(got.v["encryptedSeedPhrase"], pinDerivedKey(pin))
       IN IF ~seedDec.ok THEN no(key, ErrInvalidPin)
          ELSE
            LET m == seedDec.v.s
                init == IF key = Null THEN initializeStorageEncryption(st, m, fail)
                        ELSE [ok |-> TRUE, stor |-> st, key |-> key, error |-> ""]
                pinDec == decryptData(got.v["pinCode"],
                                      generateKeyFromSeedBytes(mnemonicToSeed(m)))
            IN IF ~init.ok
                 THEN [no(init.key, init.error) EXCEPT !.stor = init.stor]
               ELSE IF ~pinDec.ok
                 THEN [no(init.key, ErrDecrypt) EXCEPT !.stor = init.stor,
                                                       !.session = createUserSession(m, time)]
               ELSE IF pinDec.v = Str(pin)
                 THEN [stor |-> init.stor, key |-> init.key,
                       session |-> createUserSession(m, time), verified |-> TRUE,
                       seedPhrase |-> m, error |-> ""]
               ELSE [no(init.key, ErrInvalidPin) EXCEPT !.stor = init.stor,
                                                        !.session = createUserSession(m, time)]

\* AuthService.verifyPin, run to completion
verifyPin(st, key, sess, pin, time, fail) ==
  LET got == wrapperGet(st, {"pinCode", "encryptedSeedPhrase"}, key)
      no(k, e) == [stor |-> st, key |-> k, session |-> sess, verified |-> FALSE,
                   seedPhrase |-> <<>>, error |-> e]
  IN IF fail = "get" THEN no(key, ErrStorage)
     ELSE IF ~got.ok THEN no(key, ErrDecryptStorage)
     ELSE IF ~Truthy(got.v["pinCode"]) \/ ~Truthy(got.v["encryptedSeedPhrase"])
       THEN no(key, ErrPinNotSet)
     ELSE
       LET seedDec == decryptData(got.v["encryptedSeedPhrase"], pinDerivedKey(pin))
       IN IF ~seedDec.ok THEN no(key, ErrInvalidPin)
          ELSE
            LET m == seedDec.v.s
                init == IF key = Null THEN initializeStorageEncryption(st, m, fail)
                        ELSE [ok |-> TRUE, stor |-> st, key |-> key, error |-> ""]
                pinDec == decryptData(got.v["pinCode"],
                                      generateKeyFromSeedBytes(mnemonicToSeed(m)))
            IN IF ~init.ok
                 THEN [no(init.key, init.error) EXCEPT !.stor = init.stor]
               ELSE IF ~pinDec.ok
                 THEN [no(init.key, ErrDecrypt) EXCEPT !.stor = init.stor]
               ELSE IF pinDec.v = Str(pin)
                 THEN [stor |-> init.stor, key |-> init.key,
                       session |-> createUserSession(m, time), verified |-> TRUE,
                       seedPhrase |-> m, error |-> ""]
               ELSE [no(init.key, ErrInvalidPin) EXCEPT !.stor = init.stor]

\* AuthService.verifySeedPhraseLogin
verifySeedPhraseLogin(st, key, sess, m, time, fail) ==
  IF ~validateSeedPhrase(m)
    THEN [stor |-> st, key |-> key, session |-> sess, success |-> FALSE,
          error |-> "Invalid seed phrase"]
  ELSE
    LET init == IF key = Null THEN initializeStorageEncryption(st, m, fail)
                ELSE [ok |-> TRUE, stor |-> st, key |-> key, error |-> ""]
    IN IF ~init.ok
         THEN [stor |-> init.stor, key |-> init.key, session |-> sess,
               success |-> FALSE, error |-> init.error]
       ELSE [stor |-> init.stor, key |-> init.key,
             session |-> createUserSession(m, time), success |-> TRUE, error |-> ""]

\* AuthService.changePin: verifyPin(currentPin), then storePin(newPin, seed)
changePin(st, key, sess, currentPin, newPin, time, fail) ==
  LET v == verifyPin(st, key, sess, currentPin, time, fail)
      s == storePin(v.stor, v.key, newPin, v.seedPhrase, fail)
  IN IF ~v.verified
       THEN [stor |-> v.stor, key |-> v.key, session |-> v.session,
             success |-> FALSE, error |-> "Current PIN is incorrect"]
     ELSE IF ~s.success
       THEN [stor |-> s.stor, key |-> s.key, session |-> v.session,
             success |-> FALSE, error |-> "Failed to store new PIN"]
     ELSE [stor |-> s.stor, key |-> s.key, session |-> v.session,
           success |-> TRUE, error |-> ""]

\* a clearUserSession that forgets the session and keeps the storage key
clearUserSession_keepsKey(key, sess) == [key |-> key, session |-> Null]

\* AuthService.clearUserSession: the key and the session after it
clearUserSession(key, sess) == [key |-> Null, session |-> Null]

\* an isSessionValid that reports the expiry and clears nothing
isSessionValid_keepsSession(key, sess, timeout, time) ==
  IF sess = Null \/ ~sess.isActive
    THEN [key |-> key, session |-> sess, valid |-> FALSE]
  ELSE IF time - sess.timestamp > timeout
    THEN [key |-> key, session |-> sess, valid |-> FALSE]
  ELSE [key |-> key, session |-> sess, valid |-> TRUE]

\* AuthService.isSessionValid: the session and the key after the call, and
\* the value returned
isSessionValid(key, sess, timeout, time) ==
  IF sess = Null \/ ~sess.isActive
    THEN [key |-> key, session |-> sess, valid |-> FALSE]
  ELSE IF time - sess.timestamp > timeout
    THEN [key |-> Null, session |-> Null, valid |-> FALSE]
  ELSE [key |-> key, session |-> sess, valid |-> TRUE]

\* AuthService.checkLoginStatus: the session and key after its isSessionValid,
\* and the status it returns
checkLoginStatus(st, key, sess, timeout, time, fail) ==
  LET v == isSessionValid(key, sess, timeout, time)
      got == wrapperGet(st, {"hasSeedPhrase", "encryptedSeedPhrase", "storedSeedPhrase",
                             "firstTimeSetup", "pinCode", "credentials"}, v.key)
      status(l, p, f, c) == [isLoggedIn |-> l, requiresPin |-> p, firstTimeSetup |-> f,
                             hasStoredCredentials |-> c, hasPinSetup |-> p]
      hasPinSetup == Truthy(got.v["pinCode"]) /\ Truthy(got.v["encryptedSeedPhrase"])
      hasStoredCredentials == \/ Truthy(got.v["credentials"])
                              \/ Truthy(got.v["hasSeedPhrase"])
                              \/ Truthy(got.v["storedSeedPhrase"])
  IN [key |-> v.key, session |-> v.session,
      status |-> IF fail = "get" \/ ~got.ok THEN status(FALSE, FALSE, FALSE, FALSE)
                 ELSE IF got.v["firstTimeSetup"] = Bool(TRUE)
                   THEN status(FALSE, FALSE, TRUE, FALSE)
                 ELSE status(v.valid, hasPinSetup, FALSE, hasStoredCredentials)]

\* AuthService.getCurrentSession
getCurrentSession(key, sess, timeout, time) ==
  LET v == isSessionValid(key, sess, timeout, time)
  IN IF sess = Null THEN [key |-> key, session |-> sess, info |-> Null]
     ELSE IF ~v.valid THEN [key |-> v.key, session |-> v.session, info |-> Null]
     ELSE [key |-> v.key, session |-> v.session,
           info |-> [t |-> "sessionInfo", seedPhrase |-> sess.seedPhrase,
                     timestamp |-> sess.timestamp, isActive |-> sess.isActive,
                     timeRemaining |-> timeout - (time - sess.timestamp)]]

\* clearCache (CLEAR_CACHE): removes every key outside itemsToKeep
itemsToKeep == {"credentials", "pinCode", "encryptedSeedPhrase", "storedSeedPhrase",
                "extensionSettings", "backups"}

clearCache(st, fail) ==
  LET itemsToRemove == {k \in StoreKeys : st[k] # Undefined /\ k \notin itemsToKeep}
  IN IF fail = "get" THEN [stor |-> st, success |-> FALSE, error |-> ErrStorage]
     ELSE IF itemsToRemove # {} /\ fail = "set"
       THEN [stor |-> st, success |-> FALSE, error |-> ErrStorage]
     ELSE [stor |-> [k \in StoreKeys |-> IF k \in itemsToRemove THEN Undefined ELSE st[k]],
           success |-> TRUE, error |-> ""]

\* resetAllData (RESET_ALL_DATA): chrome.storage.local.clear, then the
\* first-run flag.  Its clearUserSession is the background script's own, on
\* the legacy module variables, which no handler ever sets: the AuthService
\* session and key are not touched.
resetAllData(st, fail) ==
  LET cleared == [k \in StoreKeys |-> Undefined]
  IN IF fail = "get" THEN [stor |-> st, success |-> FALSE, error |-> ErrStorage]
     ELSE IF fail = "set" THEN [stor |-> cleared, success |-> FALSE, error |-> ErrStorage]
     ELSE [stor |-> rawSet(cleared, [k \in {"firstTimeSetup"} |-> Bool(TRUE)]),
           success |-> TRUE, error |-> ""]

\* AuthController.clearAllAuthData: the session is cleared first, so the
\* write goes through the wrapper without a key
clearAllAuthItems ==
  [k \in {"pinCode", "encryptedSeedPhrase", "storedSeedPhrase", "hasSeedPhrase",
          "firstTimeSetup"} |->
     CASE k = "hasSeedPhrase" -> Bool(FALSE)
       [] k = "firstTimeSetup" -> Bool(TRUE)
       [] OTHER -> Null]

clearAllAuthData(st, fail) ==
  IF fail = "set" THEN [stor |-> st, success |-> FALSE, error |-> ErrStorage]
  ELSE [stor |-> wrapperSet(st, clearAllAuthItems, Null), success |-> TRUE, error |-> ""]

\* how many storage envelopes are nested around a stored value
RECURSIVE WrapDepth(_)
WrapDepth(v) ==
  IF v.t # "storageEnvelope" THEN 0
  ELSE 1 + WrapDepth(IF v.data.t = "json" THEN v.data.of ELSE v.data)

\* ------------------------------------------------------- PasswordService
JSONparse(x) ==
  IF x.t = "json" THEN [ok |-> TRUE, v |-> x.of] ELSE [ok |-> FALSE, v |-> Undefined]

storeItems(c, m, time) ==
  [k \in {"credentials", "hasSeedPhrase"} |->
     IF k = "credentials"
       THEN encryptData(JSONstringify([t |-> "object", credentials |-> Arr(c),
                                       timestamp |-> time]),
                        generateKeyFromSeedBytes(mnemonicToSeed(m)))
       ELSE Bool(TRUE)]

\* a createBackupRecord that puts the new record last and keeps every record
createBackupRecord_appends(st, key, credentialCount, time, bfail) ==
  LET got == wrapperGet(st, {"backups"}, key)
      backups == IF Truthy(got.v["backups"]) THEN got.v["backups"] ELSE Arr(<<>>)
      newBackup == [id |-> Str(toString(time)), timestamp |-> time,
                    credentialCount |-> credentialCount]
  IN IF bfail \/ ~got.ok \/ backups.t # "array" THEN st
     ELSE wrapperSet(st, [k \in {"backups", "currentBackupId"} |->
                            IF k = "backups" THEN Arr(backups.a \o <<newBackup>>)
                            ELSE newBackup.id], key)

\* PasswordService.createBackupRecord: the store after it; a throw (a value
\* that does not decrypt, a stored value that cannot be spread into a list, a
\* failed access) is caught by storeCredentials and changes nothing
createBackupRecord(st, key, credentialCount, time, bfail) ==
  LET got == wrapperGet(st, {"backups"}, key)
      backups == IF Truthy(got.v["backups"]) THEN got.v["backups"] ELSE Arr(<<>>)
      newBackup == [id |-> Str(toString(time)), timestamp |-> time,
                    credentialCount |-> credentialCount]
      updatedBackups == SubSeq(<<newBackup>> \o backups.a, 1,
                               IF Len(backups.a) + 1 > MaxBackups THEN MaxBackups
                               ELSE Len(backups.a) + 1)
  IN IF bfail \/ ~got.ok \/ backups.t # "array" THEN st
     ELSE wrapperSet(st, [k \in {"backups", "currentBackupId"} |->
                            IF k = "backups" THEN Arr(updatedBackups)
                            ELSE newBackup.id], key)

\* a retry that waits the same time before every attempt
retryDelay_constant(retryCount) == 1000

\* the wait before the retry that follows failed attempt number retryCount
retryDelay(retryCount) == 1000 * (retryCount + 1)

\* PasswordService.storeCredentials entered with the given retryCount, run to
\* completion: the next fails attempts of the credentials write fail.
\* attempts counts the writes made from here on, delays lists the waits.
RECURSIVE storeCredentialsFrom(_, _, _, _, _, _, _, _)
storeCredentialsFrom(st, key, c, m, time, fails, bfail, retryCount) ==
  IF fails = 0
    THEN [stor |-> createBackupRecord(wrapperSet(st, storeItems(c, m, time), key),
                                      key, Len(c), time, bfail),
          success |-> TRUE, attempts |-> 1, delays |-> <<>>, error |-> ""]
  ELSE IF retryCount < MaxRetries
    THEN LET r == storeCredentialsFrom(st, key, c, m, time, fails - 1, bfail,
                                       retryCount + 1)
         IN [r EXCEPT !.attempts = r.attempts + 1,
                      !.delays = <<retryDelay(retryCount)>> \o r.delays]
  ELSE [stor |-> st, success |-> FALSE, attempts |-> 1, delays |-> <<>>,
        error |-> ErrStorage]

\* PasswordService.storeCredentials as callers enter it (retryCount = 0)
storeCredentials(st, key, c, m, time, fails, bfail) ==
  storeCredentialsFrom(st, key, c, m, time, fails, bfail, 0)

\* PasswordService.getCredentials, with a seed phrase or without one
getCredentials(st, key, m, fail) ==
  LET got == wrapperGet(st, {"credentials"}, key)
      none(e) == [credentials |-> Arr(<<>>), walletSeeds |-> Arr(<<>>), error |-> e]
      dec == decryptData(got.v["credentials"],
                         generateKeyFromSeedBytes(mnemonicToSeed(m)))
      data == JSONparse(dec.v)
  IN IF m = EmptySeed
       THEN IF fail = "get" THEN none(ErrStorage)
            ELSE IF ~got.ok THEN none(ErrDecryptStorage)
            ELSE IF ~Truthy(got.v["credentials"]) THEN none("No credentials found")
            ELSE [none("") EXCEPT !.credentials = got.v["credentials"]]
     ELSE IF ~validateSeedPhrase(m) THEN none("Invalid seed phrase")
     ELSE IF fail = "get" THEN none(ErrStorage)
     ELSE IF ~got.ok THEN none(ErrDecryptStorage)
     ELSE IF ~Truthy(got.v["credentials"]) THEN none("")
     ELSE IF ~dec.ok \/ ~data.ok
       THEN none("Failed to decrypt credentials: OperationError")
     ELSE IF data.v.t = "array" THEN [none("") EXCEPT !.credentials = data.v]
     ELSE IF "credentials" \in DOMAIN data.v /\ Truthy(data.v.credentials)
       THEN [credentials |-> data.v.credentials,
             walletSeeds |-> IF "walletSeeds" \in DOMAIN data.v
                                  /\ Truthy(data.v.walletSeeds)
                             THEN data.v.walletSeeds ELSE Arr(<<>>),
             error |-> ""]
     ELSE IF data.v.t = "object" THEN [none("") EXCEPT !.credentials = Arr(<<data.v>>)]
     ELSE none("")

\* String.prototype.trim on the field values used here
trim(str) == IF str = " " THEN "" ELSE str

\* PasswordService.validateCredential(...).valid
validateCredential(cred) ==
  /\ cred.t = "object"
  /\ IF cred.type = "wallet"
       THEN trim(cred.name) # "" /\ trim(cred.seedPhrase) # ""
       ELSE trim(cred.website) # "" /\ trim(cred.username) # ""
            /\ trim(cred.password) # ""

\* the JSON text of an export document holding the batch
ImportDocument(batch) == JSONstringify([t |-> "object", credentials |-> Arr(batch)])

\* PasswordService.importCredentials, run to completion
importCredentials(st, key, data, m, format, replace, time, getfail, fails, bfail) ==
  LET no(e) == [stor |-> st, success |-> FALSE, imported |-> 0, total |-> 0,
                skipped |-> 0, error |-> e]
      parsed == JSONparse(data)
      importedCredentials ==
        IF "credentials" \in DOMAIN parsed.v /\ Truthy(parsed.v.credentials)
          THEN parsed.v.credentials.a ELSE <<>>
      validCredentials == SelectSeq(importedCredentials, validateCredential)
      existingResult == getCredentials(st, key, m, getfail)
      finalCredentials == IF replace THEN validCredentials
                          ELSE existingResult.credentials.a \o validCredentials
      storeResult == storeCredentials(st, key, finalCredentials, m, time, fails, bfail)
  IN IF format # "json" THEN no("Unsupported import format: " \o format)
     ELSE IF ~parsed.ok THEN no("SyntaxError")
     ELSE IF Len(validCredentials) = 0
       THEN no("No valid credentials found in import data")
     ELSE IF ~replace /\ existingResult.credentials.t # "array"
       THEN no("TypeError")
     ELSE IF ~storeResult.success THEN no(storeResult.error)
     ELSE [stor |-> storeResult.stor, success |-> TRUE,
           imported |-> Len(validCredentials), total |-> Len(finalCredentials),
           skipped |-> Len(importedCredentials) - Len(validCredentials), error |-> ""]

\* the value inside every storage envelope wrapped around a stored value
RECURSIVE Unwrapped(_)
Unwrapped(v) ==
  IF v.t # "storageEnvelope" THEN v
  ELSE Unwrapped(IF v.data.t = "json" THEN v.data.of ELSE v.data)

\* the backup records persisted, whatever they are wrapped in
PersistedBackups(st) ==
  IF Unwrapped(st["backups"]).t = "array" THEN Unwrapped(st["backups"]).a ELSE <<>>

\* the credential list persisted, whatever it is wrapped in
StoredCredentials(st) ==
  IF Unwrapped(st["credentials"]).t = "envelope"
    THEN Unwrapped(st["credentials"]).data.of.credentials.a
    ELSE <<>>

\* the PIN vault record is present: what verifyPin tests before it decrypts
PinSet(st) == Truthy(st["pinCode"]) /\ Truthy(st["encryptedSeedPhrase"])

\* the vault holds the two envelopes storePin(pin, m) writes, whatever they
\* are wrapped in
VaultHolds(st, pin, m) ==
  /\ Unwrapped(st["pinCode"]) = storePinItems(pin, m)["pinCode"]
  /\ Unwrapped(st["encryptedSeedPhrase"]) = storePinItems(pin, m)["encryptedSeedPhrase"]

\* an envelope whose bytes were damaged in the store: AES-GCM opens it under
\* no key
damaged(x) == IF HasIvData(x) THEN [x EXCEPT !.sealedBy = Null] ELSE x

\* the stores that differ from st in entry k being corrupted: the entry's
\* outermost envelope damaged, or the envelope inside its storage envelope
corruptedStores(st, k) ==
  {[st EXCEPT ![k] = damaged(st[k])]}
    \cup (IF st[k].t = "storageEnvelope" /\ st[k].data.t = "json"
            THEN {[st EXCEPT ![k] = [st[k] EXCEPT !.data = JSONstringify(damaged(st[k].data.of))]]}
            ELSE {})

\* QrAuthService after construction.  polling and timer say whether
\* pollIntervalId and timeoutId are set; creating is the id of the session
\* whose createSession is awaited (0: none); inflight holds the session ids of
\* the checkStatus calls awaited; nextId stands for generateSessionId; applied
\* and onAuthenticated record the last response applied and the last
\* onAuthenticated callback, each with the id that was polled.
QrInit ==
  [currentSession |-> Null, polling |-> FALSE, timer |-> FALSE, creating |-> 0,
   inflight |-> {}, nextId |-> 1, applied |-> Null, onAuthenticated |-> Null]

Init ==
  /\ stor = [k \in StoreKeys |-> IF k = "firstTimeSetup" THEN Bool(TRUE) ELSE Undefined]
  /\ currentStorageKey = Null
  /\ currentUserSession = Null
  /\ sessionTimeout = DefaultTimeoutTicks
  /\ now = 0
  /\ ret = [op |-> "none"]
  /\ storePinCall = Idle
  /\ port = [type |-> "", pc |-> "idle", responses |-> 0]
  /\ migration = Idle
  /\ qr = QrInit

\* ret is the response of the last handler that ran, tagged with its name
Returns(r) == ret' = r

\* the clock of Date.now()
Tick ==
  /\ now < MaxTime
  /\ now' = now + 1
  /\ UNCHANGED <<stor, currentStorageKey, currentUserSession, sessionTimeout, ret, storePinCall>>
  /\ UNCHANGED <<port, migration, qr>>

\* STORE_PIN
StorePin(pin, m, fail) ==
  \E r \in {storePin(stor, currentStorageKey, pin, m, fail)} :
     /\ stor' = r.stor
     /\ currentStorageKey' = r.key
     /\ Returns([op |-> "storePin", success |-> r.success, error |-> r.error])
     /\ UNCHANGED <<currentUserSession, sessionTimeout, now, storePinCall>>
     /\ UNCHANGED <<port, migration, qr>>

\* VERIFY_PIN
VerifyPin(pin, fail) ==
  \E r \in {verifyPin(stor, currentStorageKey, currentUserSession, pin, now, fail)} :
     /\ stor' = r.stor
     /\ currentStorageKey' = r.key
     /\ currentUserSession' = r.session
     /\ Returns([op |-> "verifyPin", verified |-> r.verified,
                 seedPhrase |-> r.seedPhrase, error |-> r.error])
     /\ UNCHANGED <<sessionTimeout, now, storePinCall>>
     /\ UNCHANGED <<port, migration, qr>>

\* VERIFY_SEED_PHRASE_LOGIN
VerifySeedPhraseLogin(m, fail) ==
  \E r \in {verifySeedPhraseLogin(stor, currentStorageKey, currentUserSession, m, now, fail)} :
     /\ stor' = r.stor
     /\ currentStorageKey' = r.key
     /\ currentUserSession' = r.session
     /\ Returns([op |-> "verifySeedPhraseLogin", success |-> r.success,
                 error |-> r.error])
     /\ UNCHANGED <<sessionTimeout, now, storePinCall>>
     /\ UNCHANGED <<port, migration, qr>>

\* CHANGE_PIN
ChangePin(currentPin, newPin, fail) ==
  \E r \in {changePin(stor, currentStorageKey, currentUserSession, currentPin,
                     newPin, now, fail)} :
     /\ stor' = r.stor
     /\ currentStorageKey' = r.key
     /\ currentUserSession' = r.session
     /\ Returns([op |-> "changePin", success |-> r.success, error |-> r.error])
     /\ UNCHANGED <<sessionTimeout, now, storePinCall>>
     /\ UNCHANGED <<port, migration, qr>>

\* LOGOUT: clearUserSession
Logout ==
  /\ currentUserSession' = clearUserSession(currentStorageKey, currentUserSession).session
  /\ currentStorageKey' = clearUserSession(currentStorageKey, currentUserSession).key
  /\ Returns([op |-> "logout", success |-> TRUE])
  /\ UNCHANGED <<stor, sessionTimeout, now, storePinCall>>
  /\ UNCHANGED <<port, migration, qr>>

IsSessionValid ==
  \E r \in {isSessionValid(currentStorageKey, currentUserSession, sessionTimeout, now)} :
     /\ currentStorageKey' = r.key
     /\ currentUserSession' = r.session
     /\ Returns([op |-> "isSessionValid", valid |-> r.valid,
                 expired |-> currentUserSession # Null
                             /\ now - currentUserSession.timestamp > sessionTimeout])
     /\ UNCHANGED <<stor, sessionTimeout, now, storePinCall>>
     /\ UNCHANGED <<port, migration, qr>>

GetCurrentSession ==
  \E r \in {getCurrentSession(currentStorageKey, currentUserSession, sessionTimeout, now)} :
     /\ currentStorageKey' = r.key
     /\ currentUserSession' = r.session
     /\ Returns([op |-> "getCurrentSession", info |-> r.info])
     /\ UNCHANGED <<stor, sessionTimeout, now, storePinCall>>
     /\ UNCHANGED <<port, migration, qr>>

\* COMPLETE_FIRST_TIME_SETUP: AuthController.handleCompleteFirstTimeSetup
CompleteFirstTimeSetup(fail) ==
  /\ stor' = IF fail = "set" THEN stor
             ELSE wrapperSet(stor, [k \in {"firstTimeSetup"} |-> Bool(FALSE)],
                             currentStorageKey)
  /\ Returns([op |-> "completeFirstTimeSetup", success |-> fail # "set"])
  /\ UNCHANGED <<currentStorageKey, currentUserSession, sessionTimeout, now, storePinCall>>
  /\ UNCHANGED <<port, migration, qr>>

\* CHECK_LOGIN_STATUS
CheckLoginStatus(fail) ==
  \E r \in {checkLoginStatus(stor, currentStorageKey, currentUserSession, sessionTimeout,
                             now, fail)} :
     /\ currentStorageKey' = r.key
     /\ currentUserSession' = r.session
     /\ Returns([op |-> "checkLoginStatus", status |-> r.status])
     /\ UNCHANGED <<stor, sessionTimeout, now, storePinCall>>
     /\ UNCHANGED <<port, migration, qr>>

\* REFRESH_SESSION: handleRefreshSession, isSessionValid then refreshUserSession
RefreshSession ==
  \E r \in {isSessionValid(currentStorageKey, currentUserSession, sessionTimeout, now)} :
     /\ currentStorageKey' = r.key
     /\ currentUserSession' = IF r.valid THEN [r.session EXCEPT !.timestamp = now]
                              ELSE r.session
     /\ Returns([op |-> "refreshSession", success |-> r.valid])
     /\ UNCHANGED <<stor, sessionTimeout, now, storePinCall>>
     /\ UNCHANGED <<port, migration, qr>>

\* UPDATE_SESSION_TIMEOUT: handleUpdateSessionTimeout refuses minutes < 1
UpdateSessionTimeout(minutes) ==
  /\ sessionTimeout' = IF minutes < 1 THEN sessionTimeout ELSE minutes
  /\ Returns([op |-> "updateSessionTimeout", success |-> minutes >= 1])
  /\ UNCHANGED <<stor, currentStorageKey, currentUserSession, now, storePinCall>>
  /\ UNCHANGED <<port, migration, qr>>

\* CLEAR_CACHE
ClearCache(fail) ==
  \E r \in {clearCache(stor, fail)} :
     /\ \A k \in StoreKeys : WrapDepth(stor[k]) < MaxWrapDepth
     /\ stor' = r.stor
     /\ Returns([op |-> "clearCache", success |-> r.success, error |-> r.error])
     /\ UNCHANGED <<currentStorageKey, currentUserSession, sessionTimeout, now, storePinCall>>
     /\ UNCHANGED <<port, migration, qr>>

\* RESET_ALL_DATA
ResetAllData(fail) ==
  \E r \in {resetAllData(stor, fail)} :
     /\ stor' = r.stor
     /\ Returns([op |-> "resetAllData", success |-> r.success, error |-> r.error])
     /\ UNCHANGED <<currentStorageKey, currentUserSession, sessionTimeout, now, storePinCall>>
     /\ UNCHANGED <<port, migration, qr>>

ClearAllAuthData(fail) ==
  \E r \in {clearAllAuthData(stor, fail)} :
     /\ stor' = r.stor
     /\ currentUserSession' = Null
     /\ currentStorageKey' = Null
     /\ Returns([op |-> "clearAllAuthData", success |-> r.success, error |-> r.error])
     /\ UNCHANGED <<sessionTimeout, now, storePinCall>>
     /\ UNCHANGED <<port, migration, qr>>

\* The PIN vault and the storage wrapper.  The clock stands still: no handler
\* of this specification reads it except to stamp a session.
Next ==
  \/ \E pin \in Pins, m \in Mnemonics, fail \in StorePinFails : StorePin(pin, m, fail)
  \/ \E pin \in Pins, fail \in VerifyPinFails : VerifyPin(pin, fail)
  \/ \E m \in Mnemonics, fail \in LoginFails : VerifySeedPhraseLogin(m, fail)
  \/ \E p \in Pins, q \in Pins, fail \in ChangePinFails : ChangePin(p, q, fail)
  \/ Logout
  \/ \E fail \in ResetFails : ClearCache(fail)
  \/ \E fail \in ResetFails : ResetAllData(fail)
  \/ \E fail \in {"none", "set"} : ClearAllAuthData(fail)

Spec == Init /\ [][Next]_vars

\* STORE_CREDENTIALS (PasswordService.storeCredentials)
StoreCredentials(c, m, fails, bfail) ==
  \E r \in {storeCredentials(stor, currentStorageKey, c, m, now, fails, bfail)} :
     /\ Len(PersistedBackups(stor)) < MaxBackupRecords
     /\ stor' = r.stor
     /\ Returns([op |-> "storeCredentials", success |-> r.success, error |-> r.error])
     /\ UNCHANGED <<currentStorageKey, currentUserSession, sessionTimeout, now, storePinCall>>
     /\ UNCHANGED <<port, migration, qr>>

\* GET_CREDENTIALS (PasswordService.getCredentials)
GetCredentials(m, fail) ==
  \E r \in {getCredentials(stor, currentStorageKey, m, fail)} :
     /\ Returns([op |-> "getCredentials", credentials |-> r.credentials,
                 walletSeeds |-> r.walletSeeds, error |-> r.error])
     /\ UNCHANGED <<stor, currentStorageKey, currentUserSession, sessionTimeout, now, storePinCall>>
     /\ UNCHANGED <<port, migration, qr>>

\* GENERATE_KEYS
GenerateKeys(m) ==
  /\ Returns(generateKeys(m))
  /\ UNCHANGED <<stor, currentStorageKey, currentUserSession, sessionTimeout, now,
                 storePinCall>>
  /\ UNCHANGED <<port, migration, qr>>

\* The session manager: the clock runs, sessions are established by seed
\* phrase or by PIN, checked, refreshed and cleared.
NextSession ==
  \/ Tick
  \/ \E m \in ValidMnemonics, fail \in LoginFails : VerifySeedPhraseLogin(m, fail)
  \/ \E fail \in StorePinFails : StorePin(Pin1, M1, fail)
  \/ \E pin \in {Pin1, Pin2} : VerifyPin(pin, "none")
  \/ Logout
  \/ IsSessionValid
  \/ GetCurrentSession
  \/ RefreshSession
  \/ \E minutes \in 0..(DefaultTimeoutTicks + 1) : UpdateSessionTimeout(minutes)
  \/ \E m \in Mnemonics \cup {EmptySeed} : GenerateKeys(m)
  \/ \E fail \in {"none", "get"} : CheckLoginStatus(fail)
  \/ \E fail \in {"none", "set"} : CompleteFirstTimeSetup(fail)

SpecSession == Init /\ [][NextSession]_vars

\* The credential store over the wrapper.
NextCred ==
  \/ \E m \in ValidMnemonics, fail \in {"none", "init.get"} :
        VerifySeedPhraseLogin(m, fail)
  \/ Logout
  \/ \E c \in CredLists, m \in Mnemonics, fails \in {0, MaxRetries, MaxRetries + 1},
        bfail \in BOOLEAN : StoreCredentials(c, m, fails, bfail)
  \/ \E m \in Mnemonics \cup {EmptySeed}, fail \in {"none", "get"} :
        GetCredentials(m, fail)

SpecCred == Init /\ [][NextCred]_vars

\* IMPORT_CREDENTIALS (PasswordService.importCredentials)
ImportCredentials(batch, m, format, replace, getfail, fails) ==
  \E r \in {importCredentials(stor, currentStorageKey, ImportDocument(batch), m, format,
                              replace, now, getfail, fails, FALSE)} :
     /\ Len(PersistedBackups(stor)) < MaxBackupRecords
     /\ Len(StoredCredentials(stor)) < MaxStoredCredentials
     /\ stor' = r.stor
     /\ Returns([op |-> "importCredentials", success |-> r.success,
                 imported |-> r.imported, total |-> r.total, skipped |-> r.skipped,
                 error |-> r.error])
     /\ UNCHANGED <<currentStorageKey, currentUserSession, sessionTimeout, now, storePinCall>>
     /\ UNCHANGED <<port, migration, qr>>

\* Import into the credential store, locked and unlocked.
NextImport ==
  \/ VerifySeedPhraseLogin(M1, "none")
  \/ Logout
  \/ \E batch \in Batches, format \in {"json", "csv"}, replace \in BOOLEAN,
        getfail \in {"none", "get"}, fails \in {0, MaxRetries + 1} :
        ImportCredentials(batch, M1, format, replace, getfail, fails)
  \/ GetCredentials(M1, "none")

SpecImport == Init /\ [][NextImport]_vars

\* values written through the wrapper: strings, a number, a boolean, an
\* object, an array
JsonValues ==
  {Str(<<"hello">>), Str(<<"4", "2">>), Str(<<"true">>), Num(7), Bool(FALSE),
   Cred1, Arr(<<Cred1>>)}

\* inputs to the decrypt functions that lack the envelope shape: not an
\* object, or an object without iv, or without data
ShapelessInputs ==
  {Str(<<"plain">>), Num(7), Null, Cred1,
   [t |-> "object", encrypted |-> Bool(TRUE), data |-> Arr(<<>>)],
   [t |-> "object", encrypted |-> Bool(TRUE), iv |-> Arr(<<>>)]}

\* the keys the wrapper is exercised on
WrapperKeys == {"currentBackupId", "backups"}

\* getSecureStorage().set({k: v})
WrapperSet(k, v, fail) ==
  /\ stor' = IF fail = "set" THEN stor
             ELSE wrapperSet(stor, [x \in {k} |-> v], currentStorageKey)
  /\ Returns([op |-> "set", success |-> fail # "set"])
  /\ UNCHANGED <<currentStorageKey, currentUserSession, sessionTimeout, now, storePinCall>>
  /\ UNCHANGED <<port, migration, qr>>

\* getSecureStorage().get([k])
WrapperGet(k) ==
  \E g \in {wrapperGet(stor, {k}, currentStorageKey)} :
     /\ Returns([op |-> "get", success |-> g.ok, info |-> g.v[k]])
     /\ UNCHANGED <<stor, currentStorageKey, currentUserSession, sessionTimeout, now,
                    storePinCall>>
     /\ UNCHANGED <<port, migration, qr>>

\* decryptStorageData(x, currentStorageKey) and decryptData(x, key) applied
\* to an input
DecryptStorageData(x) ==
  \E d \in {decryptStorageData(x, currentStorageKey)} :
     /\ currentStorageKey # Null
     /\ Returns([op |-> "decryptStorageData", success |-> d.ok, info |-> d.v])
     /\ UNCHANGED <<stor, currentStorageKey, currentUserSession, sessionTimeout, now,
                    storePinCall>>
     /\ UNCHANGED <<port, migration, qr>>

DecryptData(x, m) ==
  \E d \in {decryptData(x, generateKeyFromSeedBytes(mnemonicToSeed(m)))} :
     /\ Returns([op |-> "decryptData", success |-> d.ok, info |-> d.v])
     /\ UNCHANGED <<stor, currentStorageKey, currentUserSession, sessionTimeout, now,
                    storePinCall>>
     /\ UNCHANGED <<port, migration, qr>>

\* The storage wrapper and the two decrypt functions on their own.
NextWrapper ==
  \/ \E m \in ValidMnemonics : VerifySeedPhraseLogin(m, "none")
  \/ Logout
  \/ \E k \in WrapperKeys, v \in JsonValues, fail \in {"none", "set"} : WrapperSet(k, v, fail)
  \/ \E k \in WrapperKeys : WrapperGet(k)
  \/ \E x \in ShapelessInputs
               \cup {encryptStorageData(Num(7), generateStorageEncryptionKey(M1))} :
        DecryptStorageData(x)
  \/ \E x \in ShapelessInputs \cup {encryptData(Str(<<"plain">>),
                                                generateKeyFromSeedBytes(mnemonicToSeed(M1)))},
        m \in ValidMnemonics : DecryptData(x, m)

SpecWrapper == Init /\ [][NextWrapper]_vars

\* storePin taken one await at a time.  A call that finds no key enters
\* initializeStorageEncryption and suspends in generateStorageEncryptionKey.
StorePinBegin(pin, m) ==
  /\ storePinCall = Idle
  /\ storePinCall' = [pc |-> IF currentStorageKey = Null THEN "generateKey" ELSE "encrypt",
                      pin |-> pin, m |-> m]
  /\ UNCHANGED <<stor, currentStorageKey, currentUserSession, sessionTimeout, now, ret>>
  /\ UNCHANGED <<port, migration, qr>>

\* the key derivation resolves: this.currentStorageKey is assigned and
\* verifyStorageEncryption is started
StorePinAssignKey ==
  /\ storePinCall.pc = "generateKey"
  /\ currentStorageKey' = generateStorageEncryptionKey(storePinCall.m)
  /\ storePinCall' = [storePinCall EXCEPT !.pc = "verify"]
  /\ UNCHANGED <<stor, currentUserSession, sessionTimeout, now, ret>>
  /\ UNCHANGED <<port, migration, qr>>

\* the verification resolves: migrateToEncryptedStorage runs with the value
\* this.currentStorageKey has now; a throw resets the key and ends the call
StorePinMigrate(fail) ==
  /\ storePinCall.pc = "verify"
  /\ IF fail = "init.get" \/ migrationThrows(stor, currentStorageKey)
       THEN /\ currentStorageKey' = Null
            /\ storePinCall' = Idle
            /\ Returns([op |-> "storePin", success |-> FALSE, error |-> ErrMigration])
            /\ UNCHANGED stor
       ELSE /\ stor' = migrateToEncryptedStorage(stor, currentStorageKey)
            /\ storePinCall' = [storePinCall EXCEPT !.pc = "encrypt"]
            /\ UNCHANGED <<currentStorageKey, ret>>
  /\ UNCHANGED <<currentUserSession, sessionTimeout, now>>
  /\ UNCHANGED <<port, migration, qr>>

\* the envelopes are ready: the wrapper's set runs with the value
\* this.currentStorageKey has now
StorePinSet(fail) ==
  /\ storePinCall.pc = "encrypt"
  /\ IF fail = "set"
       THEN /\ Returns([op |-> "storePin", success |-> FALSE, error |-> ErrStorage])
            /\ UNCHANGED stor
       ELSE /\ stor' = wrapperSet(stor, storePinItems(storePinCall.pin, storePinCall.m),
                                  currentStorageKey)
            /\ Returns([op |-> "storePin", success |-> TRUE, error |-> ""])
  /\ storePinCall' = Idle
  /\ UNCHANGED <<currentStorageKey, currentUserSession, sessionTimeout, now>>
  /\ UNCHANGED <<port, migration, qr>>

\* storePin interleaved at its awaits with logout, login and timeout detection.
NextAsync ==
  \/ \E pin \in {Pin1, Pin2}, m \in ValidMnemonics : StorePinBegin(pin, m)
  \/ StorePinAssignKey
  \/ \E fail \in {"none", "init.get"} : StorePinMigrate(fail)
  \/ \E fail \in {"none", "set"} : StorePinSet(fail)
  \/ \E m \in ValidMnemonics : VerifySeedPhraseLogin(m, "none")
  \/ Logout
  \/ Tick
  \/ IsSessionValid

SpecAsync == Init /\ [][NextAsync]_vars

\* STORE_CREDENTIALS with the number of writes it made, taken until the
\* backups list is full
StoreCredentialsBackup(c, m, fails, bfail) ==
  \E r \in {storeCredentials(stor, currentStorageKey, c, m, now, fails, bfail)} :
     /\ stor' = r.stor
     /\ Returns([op |-> "storeCredentials", success |-> r.success, error |-> r.error,
                 attempts |-> r.attempts])
     /\ UNCHANGED <<currentStorageKey, currentUserSession, sessionTimeout, now, storePinCall>>
     /\ UNCHANGED <<port, migration, qr>>

\* The backup records of the credential store, with the clock running.
NextBackup ==
  \/ Tick
  \/ VerifySeedPhraseLogin(M1, "none")
  \/ Logout
  \/ \E fails \in {0, MaxRetries, MaxRetries + 1}, bfail \in BOOLEAN :
        StoreCredentialsBackup(<<Cred1>>, M1, fails, bfail)

SpecBackup == Init /\ [][NextBackup]_vars

\* migrateToEncryptedStorage's chrome.storage.local.set of the data it built
\* from its snapshot allData, on the store as it is now: set replaces the
\* entries it is given and leaves the others
migrationWrite(st, allData, key) ==
  [k \in StoreKeys |->
     IF \/ k \in {"hasEncryptedStorage", "storageVersion"}
        \/ (k \in skipEncryption /\ allData[k] # Undefined)
        \/ (k \notin skipEncryption /\ allData[k] \notin {Undefined, Null})
       THEN migrateToEncryptedStorage(allData, key)[k]
       ELSE st[k]]

\* verifySeedPhraseLogin taken up to the await inside migrateToEncryptedStorage:
\* the key is derived, assigned and verified, and the migration has read all
\* of the store.  migration is the migration in flight, with its snapshot.
LoginBegin(m) ==
  /\ migration = Idle
  /\ currentStorageKey = Null
  /\ validateSeedPhrase(m)
  /\ currentStorageKey' = generateStorageEncryptionKey(m)
  /\ migration' = [pc |-> "encrypt", m |-> m, key |-> generateStorageEncryptionKey(m),
                   allData |-> stor]
  /\ UNCHANGED <<stor, currentUserSession, sessionTimeout, now, ret, storePinCall, port, qr>>

\* the migration writes what it built from its snapshot (nothing, if the
\* snapshot carried the marker) and the login creates its session; a failed
\* write resets the key
MigrationWrite(fail) ==
  /\ migration # Idle
  /\ IF Truthy(migration.allData["hasEncryptedStorage"])
       THEN /\ currentUserSession' = createUserSession(migration.m, now)
            /\ Returns([op |-> "verifySeedPhraseLogin", success |-> TRUE, error |-> ""])
            /\ UNCHANGED <<stor, currentStorageKey>>
     ELSE IF fail = "init.set"
       THEN /\ currentStorageKey' = Null
            /\ Returns([op |-> "verifySeedPhraseLogin", success |-> FALSE,
                        error |-> ErrMigration])
            /\ UNCHANGED <<stor, currentUserSession>>
     ELSE /\ stor' = migrationWrite(stor, migration.allData, migration.key)
          /\ currentUserSession' = createUserSession(migration.m, now)
          /\ Returns([op |-> "verifySeedPhraseLogin", success |-> TRUE, error |-> ""])
          /\ UNCHANGED currentStorageKey
  /\ migration' = Idle
  /\ UNCHANGED <<sessionTimeout, now, storePinCall, port, qr>>

\* A login whose migration is in flight, with wrapper writes of other
\* handlers running in between.
NextMigration ==
  \/ \E m \in ValidMnemonics : LoginBegin(m)
  \/ \E fail \in {"none", "init.set"} : MigrationWrite(fail)
  \/ \E fail \in {"none", "set"} : CompleteFirstTimeSetup(fail)
  \/ \E k \in WrapperKeys, v \in {Str(<<"hello">>), Num(7)} : WrapperSet(k, v, "none")
  \/ \E k \in WrapperKeys : WrapperGet(k)
  \/ Logout

SpecMigration == Init /\ [][NextMigration]_vars

\* ---------------------------------------------------------- QrAuthService
\* what a checkStatus call resolves or rejects with
QrResponses == {"pending", "authenticated", "expired", "SESSION_NOT_FOUND", "NETWORK_ERROR"}

\* QrAuthService.cancelSession: both timers stopped, no current session
cancelSession(q) == [q EXCEPT !.polling = FALSE, !.timer = FALSE, !.currentSession = Null]

\* startSession up to its await of api.createSession
StartSession ==
  /\ qr.creating = 0
  /\ qr.nextId <= MaxQrSessions
  /\ qr' = [cancelSession(qr) EXCEPT !.creating = qr.nextId, !.nextId = @ + 1]
  /\ UNCHANGED <<authVars, port, migration>>

\* api.createSession resolves or rejects
SessionCreated(ok) ==
  /\ qr.creating # 0
  /\ qr' = IF ok
             THEN [qr EXCEPT !.currentSession = [t |-> "qrSession", sessionId |-> qr.creating,
                                                  status |-> "pending", userId |-> Null],
                             !.polling = TRUE, !.timer = TRUE, !.creating = 0]
             ELSE [qr EXCEPT !.currentSession = Null, !.creating = 0]
  /\ UNCHANGED <<authVars, port, migration>>

CancelSession ==
  /\ qr' = cancelSession(qr)
  /\ UNCHANGED <<authVars, port, migration>>

\* the polling interval fires: checkStatus is called for the current session
PollTick ==
  /\ qr.polling
  /\ qr' = IF qr.currentSession = Null THEN [qr EXCEPT !.polling = FALSE]
           ELSE [qr EXCEPT !.inflight = @ \cup {qr.currentSession.sessionId}]
  /\ UNCHANGED <<authVars, port, migration>>

\* the rest of the interval callback, run when checkStatus(id) settles
pollResponse(q, id, response) ==
  LET cur == q.currentSession
      status == CASE response = "SESSION_NOT_FOUND" -> "cancelled"
                  [] OTHER -> response
      updated == IF response = "authenticated"
                   THEN [cur EXCEPT !.status = status, !.userId = Num(id)]
                   ELSE [cur EXCEPT !.status = status]
      stop == \/ response \in {"expired", "SESSION_NOT_FOUND"}
              \/ (response = "authenticated" /\ cur # Null)
      landed == [q EXCEPT !.inflight = @ \ {id}]
      stopped == IF stop THEN [landed EXCEPT !.polling = FALSE, !.timer = FALSE] ELSE landed
  IN IF response = "NETWORK_ERROR" \/ cur = Null THEN stopped
     ELSE [stopped EXCEPT !.currentSession = updated,
                          !.applied = [polled |-> id, to |-> cur.sessionId],
                          !.onAuthenticated =
                             IF response = "authenticated"
                               THEN [polled |-> id, session |-> updated]
                               ELSE @]

PollResponse(id, response) ==
  /\ id \in qr.inflight
  /\ qr' = pollResponse(qr, id, response)
  /\ UNCHANGED <<authVars, port, migration>>

\* the session timeout fires
QrTimeout ==
  /\ qr.timer
  /\ qr' = IF qr.currentSession # Null /\ qr.currentSession.status = "pending"
             THEN [qr EXCEPT !.currentSession.status = "expired", !.polling = FALSE,
                             !.timer = FALSE]
             ELSE [qr EXCEPT !.timer = FALSE]
  /\ UNCHANGED <<authVars, port, migration>>

NextQr ==
  \/ StartSession
  \/ \E ok \in BOOLEAN : SessionCreated(ok)
  \/ CancelSession
  \/ PollTick
  \/ \E id \in 1..MaxQrSessions, response \in QrResponses : PollResponse(id, response)
  \/ QrTimeout

SpecQr == Init /\ [][NextQr]_vars

\* ------------------------------------------------- the message listener
\* chrome.runtime.onMessage: port is the channel of the request last accepted,
\* with the number of sendResponse calls made on it.
CredentialRequests ==
  {"STORE_CREDENTIALS", "GET_CREDENTIALS", "SEARCH_CREDENTIALS", "EXPORT_CREDENTIALS",
   "IMPORT_CREDENTIALS"}

AuthRequests == {"VERIFY_SEED_PHRASE_LOGIN", "LOGOUT", "GET_SESSION_INFO"}

sendResponse(p) == [p EXCEPT !.pc = "answered", !.responses = @ + 1]

\* the listener accepts a message, hands it to its controller and returns
\* true, which keeps the channel open for an asynchronous sendResponse
OnMessage(type) ==
  /\ port.pc # "handling"
  /\ port' = [type |-> type, pc |-> "handling", responses |-> 0]
  /\ UNCHANGED <<authVars, migration, qr>>

\* AuthController.handleVerifySeedPhraseLogin
HandleVerifySeedPhraseLogin(m, fail) ==
  \E r \in {verifySeedPhraseLogin(stor, currentStorageKey, currentUserSession, m, now, fail)} :
     /\ port.pc = "handling" /\ port.type = "VERIFY_SEED_PHRASE_LOGIN"
     /\ stor' = r.stor
     /\ currentStorageKey' = r.key
     /\ currentUserSession' = r.session
     /\ Returns([op |-> "verifySeedPhraseLogin", success |-> r.success, error |-> r.error])
     /\ port' = sendResponse(port)
     /\ UNCHANGED <<sessionTimeout, now, storePinCall, migration, qr>>

\* AuthController.handleLogout
HandleLogout ==
  \E r \in {clearUserSession(currentStorageKey, currentUserSession)} :
     /\ port.pc = "handling" /\ port.type = "LOGOUT"
     /\ currentStorageKey' = r.key
     /\ currentUserSession' = r.session
     /\ Returns([op |-> "logout", success |-> TRUE])
     /\ port' = sendResponse(port)
     /\ UNCHANGED <<stor, sessionTimeout, now, storePinCall, migration, qr>>

\* AuthController.handleGetSessionInfo: getCurrentSession, then isSessionValid
HandleGetSessionInfo ==
  \E r \in {getCurrentSession(currentStorageKey, currentUserSession, sessionTimeout, now)} :
     /\ port.pc = "handling" /\ port.type = "GET_SESSION_INFO"
     /\ currentStorageKey' = r.key
     /\ currentUserSession' = r.session
     /\ Returns([op |-> "getSessionInfo", session |-> r.info,
                 isValid |-> isSessionValid(r.key, r.session, sessionTimeout, now).valid])
     /\ port' = sendResponse(port)
     /\ UNCHANGED <<stor, sessionTimeout, now, storePinCall, migration, qr>>

\* PasswordController.handleStoreCredentials, handleGetCredentials,
\* handleSearchCredentials, handleExportCredentials, handleImportCredentials:
\* each takes the message alone and returns its result object; the listener
\* drops the promise, and sendResponse is called by nobody.  The store and
\* import handlers pass (seedPhrase, credentials) to a service that takes
\* (credentials, seedPhrase), which fails before it writes; the others read.
HandlePasswordRequest ==
  /\ port.pc = "handling" /\ port.type \in CredentialRequests
  /\ port' = [port EXCEPT !.pc = "returned"]
  /\ UNCHANGED <<authVars, migration, qr>>

NextMessages ==
  \/ \E type \in AuthRequests \cup CredentialRequests : OnMessage(type)
  \/ \E m \in ValidMnemonics, fail \in LoginFails : HandleVerifySeedPhraseLogin(m, fail)
  \/ HandleLogout
  \/ HandleGetSessionInfo
  \/ HandlePasswordRequest
  \/ Tick

\* A handler that was started runs to its end.
SpecMessages ==
  /\ Init /\ [][NextMessages]_vars
  /\ WF_vars(\E m \in ValidMnemonics : HandleVerifySeedPhraseLogin(m, "none"))
  /\ WF_vars(HandleLogout)
  /\ WF_vars(HandleGetSessionInfo)
  /\ WF_vars(HandlePasswordRequest)

\* ------------------------------------------------------------------ claims

\* C1: after storePin(pin, m) succeeds for a valid mnemonic m, verifyPin(pin)
\* verifies and returns exactly m, and verifyPin(p) fails for every other p.
C1_PinRoundTrip ==
  \A pin \in Pins, m \in ValidMnemonics, fail \in StorePinFails :
    \A s \in {storePin(stor, currentStorageKey, pin, m, fail)} :
      s.success =>
        /\ \A v \in {verifyPin(s.stor, s.key, currentUserSession, pin, now, "none")} :
              v.verified /\ v.seedPhrase = m
        /\ \A p \in Pins \ {pin} :
              ~verifyPin(s.stor, s.key, currentUserSession, p, now, "none").verified

C1_Witness ==
  /\ ret.op = "verifyPin" /\ ret.verified /\ ret.seedPhrase = M1
  /\ VaultHolds(stor, Pin1, M1)

\* C2: with a PIN set and no storage key resident, verifyPin(correct PIN)
\* verifies, recovers the mnemonic and establishes a session.
C2_PinUnlockResumesLocked ==
  \A pin \in Pins, m \in ValidMnemonics :
    (currentStorageKey = Null /\ currentUserSession = Null /\ VaultHolds(stor, pin, m)) =>
      \A v \in {verifyPin(stor, currentStorageKey, currentUserSession, pin, now, "none")} :
        v.verified /\ v.seedPhrase = m /\ v.session # Null

\* C5: a resident storage key implies an active session.
C5_KeyOnlyWhenUnlocked ==
  currentStorageKey # Null =>
    (currentUserSession # Null /\ currentUserSession.isActive)

\* C7: migrating twice under a key leaves the store as migrating once does,
\* and a migration of a store whose marker is set changes nothing.
C7_MigrateIdempotent ==
  \A m \in Mnemonics :
    \A k \in {generateStorageEncryptionKey(m)} :
      /\ migrateToEncryptedStorage(migrateToEncryptedStorage(stor, k), k)
           = migrateToEncryptedStorage(stor, k)
      /\ Truthy(stor["hasEncryptedStorage"]) => migrateToEncryptedStorage(stor, k) = stor

C7_Witness ==
  /\ Truthy(stor["hasEncryptedStorage"])
  /\ WrapDepth(stor["pinCode"]) = 2

\* C8: storeCredentials and storePin given a mnemonic that fails validation
\* return an error, derive no key and leave the store unchanged.
C8_InvalidMnemonicRejected ==
  /\ \A pin \in Pins :
       \A s \in {storePin(stor, currentStorageKey, pin, BadMnemonic, "none")} :
         ~s.success /\ s.stor = stor /\ s.key = currentStorageKey
  /\ \A c \in CredLists :
       \A s \in {storeCredentials(stor, currentStorageKey, c, BadMnemonic, now, 0, FALSE)} :
         ~s.success /\ s.stor = stor

\* C9: a verifyPin that answers verified false leaves pinCode and
\* encryptedSeedPhrase as they were, and the vault goes from set to not set
\* only in a full reset.
C9_FailedVerifyKeepsVault ==
  [][/\ (ret'.op = "verifyPin" /\ ~ret'.verified) =>
          /\ stor'["pinCode"] = stor["pinCode"]
          /\ stor'["encryptedSeedPhrase"] = stor["encryptedSeedPhrase"]
     /\ (PinSet(stor) /\ ~PinSet(stor')) =>
          ret'.op \in {"resetAllData", "clearAllAuthData"}]_vars

C9_Witness ==
  /\ ret.op = "verifyPin" /\ ~ret.verified /\ ret.error = ErrInvalidPin
  /\ PinSet(stor)

\* C10: changePin succeeds only when verifyPin(currentPin) does; after a
\* success verifyPin(newPin) verifies and verifyPin(currentPin) does not;
\* after a failure both envelopes are as before; and the two envelopes of the
\* vault always belong to one PIN and one mnemonic.
C10_ChangePinAtomic ==
  /\ \A p \in Pins, q \in Pins, fail \in ChangePinFails :
       \A r \in {changePin(stor, currentStorageKey, currentUserSession, p, q, now, fail)} :
         IF r.success
           THEN /\ verifyPin(stor, currentStorageKey, currentUserSession, p, now, "none").verified
                /\ verifyPin(r.stor, r.key, r.session, q, now, "none").verified
                /\ p # q => ~verifyPin(r.stor, r.key, r.session, p, now, "none").verified
           ELSE /\ r.stor["pinCode"] = stor["pinCode"]
                /\ r.stor["encryptedSeedPhrase"] = stor["encryptedSeedPhrase"]
  /\ PinSet(stor) => \E pin \in Pins, m \in Mnemonics : VaultHolds(stor, pin, m)

C10_Witness ==
  /\ ret.op = "changePin" /\ ret.success
  /\ VaultHolds(stor, Pin2, M1)

\* C3: once storeCredentials(c, m) has succeeded and nothing was stored
\* since, getCredentials(m) returns exactly c, with or without a resident key.
C3_StoreThenRetrieve ==
  \A c \in CredLists, m \in ValidMnemonics :
    Unwrapped(stor["credentials"]) = storeItems(c, m, now)["credentials"] =>
      getCredentials(stor, currentStorageKey, m, "none").credentials = Arr(c)

\* C4: no entry of the persistent store holds a mnemonic in plaintext, however
\* storePin's awaits interleave with logout and timeout detection.
C4_NoPlaintextMnemonic ==
  \A k \in StoreKeys : ~(stor[k].t = "string" /\ stor[k].s \in Mnemonics)

\* C6: once an established session is older than the timeout, isSessionValid
\* answers false and clears the session and the storage key, and
\* getCurrentSession answers null from then on.
C6_LazyExpiry ==
  (currentUserSession # Null /\ now - currentUserSession.timestamp > sessionTimeout) =>
    \A r \in {isSessionValid(currentStorageKey, currentUserSession, sessionTimeout, now)} :
      /\ ~r.valid /\ r.session = Null /\ r.key = Null
      /\ \A t \in now..MaxTime :
           getCurrentSession(r.key, r.session, sessionTimeout, t).info = Null

C6_Witness ==
  /\ ret.op = "isSessionValid" /\ ret.expired /\ ~ret.valid
  /\ currentUserSession = Null /\ currentStorageKey = Null

\* C11: clearUserSession (and so logout) leaves no session and no storage key
\* from any state, a second call changes nothing, and afterwards
\* isSessionValid answers false and getCurrentSession answers null.
C11_ClearIdempotent ==
  \A r \in {clearUserSession(currentStorageKey, currentUserSession)} :
    /\ r.session = Null /\ r.key = Null
    /\ clearUserSession(r.key, r.session) = r
    /\ \A t \in now..MaxTime :
         /\ ~isSessionValid(r.key, r.session, sessionTimeout, t).valid
         /\ getCurrentSession(r.key, r.session, sessionTimeout, t).info = Null

C11_Witness ==
  /\ ret.op = "logout" /\ ret.success
  /\ currentUserSession = Null /\ currentStorageKey = Null
  /\ Truthy(stor["hasEncryptedStorage"])

\* C12: storeCredentials ends after at most 1 + 3 writes; the waits between
\* attempts grow strictly; when every attempt fails it returns a failure and
\* leaves the store alone; it reports success only when a write went through.
C12_BoundedRetries ==
  \A c \in CredLists, m \in ValidMnemonics, fails \in 0..(MaxRetries + 2),
     bfail \in BOOLEAN :
    \A r \in {storeCredentials(stor, currentStorageKey, c, m, now, fails, bfail)} :
      /\ r.attempts <= MaxRetries + 1
      /\ Len(r.delays) = r.attempts - 1
      /\ \A i \in 1..Len(r.delays), j \in 1..Len(r.delays) :
           i < j => r.delays[i] < r.delays[j]
      /\ fails > MaxRetries =>
           ~r.success /\ r.attempts = MaxRetries + 1 /\ r.error # "" /\ r.stor = stor
      /\ r.success =>
           /\ fails < r.attempts
           /\ r.stor["credentials"]
                = wrapperSet(stor, storeItems(c, m, now), currentStorageKey)["credentials"]

C12_Witness ==
  /\ ret.op = "storeCredentials" /\ ~ret.success /\ ret.error = ErrStorage

\* C13: getCredentials always returns a list in credentials; the list is
\* empty whenever error is set; a stored blob that it does not return comes
\* with an error; and it returns no records sealed under another mnemonic.
C13_RetrieveNeverThrows ==
  \A m \in Mnemonics \cup {EmptySeed}, fail \in {"none", "get"} :
    \A r \in {getCredentials(stor, currentStorageKey, m, fail)} :
      /\ r.credentials.t = "array"
      /\ r.error # "" => r.credentials = Arr(<<>>)
      /\ (Truthy(stor["credentials"]) /\ r.credentials = Arr(<<>>)) => r.error # ""
      /\ r.credentials # Arr(<<>>) =>
           Unwrapped(stor["credentials"]).sealedBy
             = generateKeyFromSeedBytes(mnemonicToSeed(m))

\* C14: an import of a batch with v valid and k invalid records, as JSON or
\* as CSV, returns imported = v and skipped = k.
C14_ImportCounts ==
  \A batch \in Batches, format \in {"json", "csv"}, replace \in BOOLEAN :
    \A r \in {importCredentials(stor, currentStorageKey, ImportDocument(batch), M1,
                                format, replace, now, "none", 0, FALSE)} :
      /\ r.success
      /\ r.imported = Len(SelectSeq(batch, validateCredential))
      /\ r.skipped = Len(batch) - Len(SelectSeq(batch, validateCredential))

\* C15: a successful import without replace leaves the stored list equal to
\* the list stored before followed by the valid imported records; with
\* replace it leaves exactly the valid imported records.
C15_AppendKeepsExisting ==
  \A batch \in Batches, replace \in BOOLEAN, getfail \in {"none", "get"} :
    \A r \in {importCredentials(stor, currentStorageKey, ImportDocument(batch), M1,
                                "json", replace, now, getfail, 0, FALSE)} :
      r.success =>
        StoredCredentials(r.stor)
          = IF replace THEN SelectSeq(batch, validateCredential)
            ELSE StoredCredentials(stor) \o SelectSeq(batch, validateCredential)

\* C16: no response holds the key derived from the seed bytes, as raw bytes
\* or as their hex string.
C16_NoKeyInResponse ==
  \A f \in DOMAIN ret \cap {"rawKey", "privateKey", "publicKey", "info",
                            "credentials", "walletSeeds"} :
    \A m \in Mnemonics :
      \A kb \in {exportKey(generateKeyFromSeedBytes(mnemonicToSeed(m)))} :
        ret[f] # kb /\ ret[f] # toHexString(kb)

\* C17: with a storage key resident, get(k) after set({k: v}) returns a value
\* equal to v for every key that is not allowlisted and every JSON value v.
C17_WrapperTransparent ==
  currentStorageKey # Null =>
    \A k \in WrapperKeys, v \in JsonValues :
      \A g \in {wrapperGet(wrapperSet(stor, [x \in {k} |-> v], currentStorageKey),
                           {k}, currentStorageKey)} :
        g.ok /\ g.v[k] = v

\* C18: decryptStorageData and decryptData return an input that lacks the
\* envelope shape unchanged and raise no error.
C18_DecryptPassthrough ==
  currentStorageKey # Null =>
    \A x \in ShapelessInputs :
      /\ decryptStorageData(x, currentStorageKey) = [ok |-> TRUE, v |-> x]
      /\ decryptData(x, generateKeyFromSeedBytes(mnemonicToSeed(currentStorageKey.of)))
           = [ok |-> TRUE, v |-> x]

\* C19: isSessionValid returns true only while a session is held and
\* now - timestamp is strictly less than the timeout; at an age equal to the
\* timeout the session is not valid.
C19_ExpiryStrict ==
  \A r \in {isSessionValid(currentStorageKey, currentUserSession, sessionTimeout, now)} :
    r.valid => /\ currentUserSession # Null
               /\ now - currentUserSession.timestamp < sessionTimeout

\* C20: verifyPin establishes a session only after both confirmations: the
\* stored seed phrase envelope opens under the key derived from the PIN, and
\* the stored PIN decrypted under the seed key equals the candidate PIN. A
\* verifyPin that answers verified false leaves currentUserSession as it was.
C20_SessionOnlyAfterBothConfirmations ==
  \A pin \in Pins, fail \in VerifyPinFails :
    \A r \in {verifyPin(stor, currentStorageKey, currentUserSession, pin, now, fail)} :
      /\ ~r.verified => r.session = currentUserSession
      /\ r.verified =>
           \A got \in {wrapperGet(stor, {"pinCode", "encryptedSeedPhrase"},
                                  currentStorageKey)} :
             /\ got.ok
             /\ \A seedDec \in {decryptData(got.v["encryptedSeedPhrase"],
                                            pinDerivedKey(pin))} :
                  /\ seedDec.ok
                  /\ decryptData(got.v["pinCode"],
                                 generateKeyFromSeedBytes(mnemonicToSeed(seedDec.v.s)))
                       = [ok |-> TRUE, v |-> Str(pin)]
                  /\ r.session = createUserSession(seedDec.v.s, now)

C20_Witness ==
  /\ ret.op = "verifyPin" /\ ~ret.verified /\ ret.error = ErrInvalidPin
  /\ currentStorageKey # Null /\ currentUserSession = Null
  /\ \E pin \in Pins :
       \E got \in {wrapperGet(stor, {"pinCode", "encryptedSeedPhrase"}, currentStorageKey)} :
         /\ got.ok
         /\ Truthy(got.v["pinCode"]) /\ Truthy(got.v["encryptedSeedPhrase"])
         /\ \E seedDec \in {decryptData(got.v["encryptedSeedPhrase"], pinDerivedKey(pin))} :
              /\ seedDec.ok
              /\ \E pinDec \in {decryptData(got.v["pinCode"],
                                   generateKeyFromSeedBytes(mnemonicToSeed(seedDec.v.s)))} :
                   pinDec.ok /\ pinDec.v # Str(pin)

\* C21: verifyPin with a wrong PIN, and verifyPin with the right PIN against
\* a store whose pinCode or encryptedSeedPhrase entry is corrupted, return the
\* same verified flag and the same error.
C21_NoOracle ==
  \A pin \in Pins, wrong \in Pins, k \in {"pinCode", "encryptedSeedPhrase"} :
    (/\ wrong # pin
     /\ verifyPin(stor, currentStorageKey, currentUserSession, pin, now, "none").verified)
    => \A c \in corruptedStores(stor, k) :
         \A a \in {verifyPin(stor, currentStorageKey, currentUserSession, wrong, now, "none")},
            b \in {verifyPin(c, currentStorageKey, currentUserSession, pin, now, "none")} :
           /\ ~a.verified /\ ~b.verified
           /\ a.error = b.error

\* C22: whenever a session is active and a storage key is resident, the key
\* is the one derived from the session's seed phrase.
C22_KeyMatchesSession ==
  (currentUserSession # Null /\ currentStorageKey # Null) =>
    currentStorageKey = generateStorageEncryptionKey(currentUserSession.seedPhrase)

\* C23: no persistent entry is wrapped in more than one storage envelope, and
\* a value read through the wrapper with the resident key is never itself a
\* storage envelope.
C23_SingleEnvelope ==
  /\ \A k \in StoreKeys : WrapDepth(stor[k]) <= 1
  /\ currentStorageKey # Null =>
       \A k \in StoreKeys \ skipEncryption :
         \A g \in {wrapperGet(stor, {k}, currentStorageKey)} :
           g.ok => g.v[k].t # "storageEnvelope"

\* C24: once the age of the session has exceeded the timeout in force,
\* isSessionValid does not answer true for that session after any later step
\* (refresh, timeout update, clock tick); only a login establishes a valid
\* session again.
C24_ExpiryIsFinal ==
  [][(/\ currentUserSession # Null
      /\ now - currentUserSession.timestamp > sessionTimeout
      /\ ~(/\ ret'.op \in {"verifySeedPhraseLogin", "verifyPin"}
           /\ currentUserSession' # currentUserSession))
     => ~isSessionValid(currentStorageKey', currentUserSession', sessionTimeout', now').valid]_vars

\* C25: after RESET_ALL_DATA has answered success, no session and no storage
\* key are held, and GET_SESSION_INFO reports no session and isValid false.
C25_ResetClearsSession ==
  (ret.op = "resetAllData" /\ ret.success) =>
    /\ currentUserSession = Null
    /\ currentStorageKey = Null
    /\ getCurrentSession(currentStorageKey, currentUserSession, sessionTimeout, now).info = Null
    /\ ~isSessionValid(currentStorageKey, currentUserSession, sessionTimeout, now).valid

\* C26: every request the listener accepted eventually receives a response,
\* and never more than one; in particular each credential request does.
C26_EveryRequestAnswered ==
  /\ [](port.responses <= 1)
  /\ \A type \in AuthRequests \cup CredentialRequests :
       (port.pc = "handling" /\ port.type = type)
         ~> (port.type = type /\ port.pc = "answered" /\ port.responses = 1)

\* C27: checkLoginStatus reports isLoggedIn true exactly when the session is
\* valid at the time of the call, whatever the store holds and whether or not
\* reading the store fails.
C27_LoggedInIffSessionValid ==
  \A fail \in {"none", "get"} :
    checkLoginStatus(stor, currentStorageKey, currentUserSession, sessionTimeout, now,
                     fail).status.isLoggedIn
      = isSessionValid(currentStorageKey, currentUserSession, sessionTimeout, now).valid

\* C28: one storeCredentials call adds at most one backup record, in front of
\* the records already there, however many writes it retried; the persisted
\* backups list is newest-first and holds at most MaxBackups records.
C28_OneBackupPerStore ==
  /\ Len(PersistedBackups(stor)) <= MaxBackups
  /\ \A i \in 1..Len(PersistedBackups(stor)), j \in 1..Len(PersistedBackups(stor)) :
       i < j => PersistedBackups(stor)[i].timestamp >= PersistedBackups(stor)[j].timestamp
  /\ \A c \in CredLists, fails \in 0..(MaxRetries + 1), bfail \in BOOLEAN :
       \A r \in {storeCredentials(stor, currentStorageKey, c, M1, now, fails, bfail)} :
         \A before \in {PersistedBackups(stor)}, after \in {PersistedBackups(r.stor)} :
           \/ after = before
           \/ /\ after[1] = [id |-> Str(toString(now)), timestamp |-> now,
                             credentialCount |-> Len(c)]
              /\ Len(after) = IF Len(before) < MaxBackups THEN Len(before) + 1
                              ELSE MaxBackups
              /\ Tail(after) = SubSeq(before, 1, Len(after) - 1)

C28_Witness ==
  /\ ret.op = "storeCredentials" /\ ret.success /\ ret.attempts > 1
  /\ Len(PersistedBackups(stor)) = MaxBackups
  /\ PersistedBackups(stor)[1].timestamp > PersistedBackups(stor)[MaxBackups].timestamp

\* C29: a migration never overwrites newer data: an entry that was written
\* after the migration read its snapshot is the same after the migration's
\* write as before it.
C29_MigrationKeepsNewerData ==
  [][(migration # Idle /\ migration' = Idle) =>
       \A k \in StoreKeys :
         stor[k] # migration.allData[k] => stor'[k] = stor[k]]_vars

\* C30: a QR status response is applied only to the session whose id was
\* polled: it never changes the status or identity fields of another session
\* and never fires onAuthenticated for another session.
C30_ResponseOnlyForPolledSession ==
  /\ qr.applied # Null => qr.applied.polled = qr.applied.to
  /\ qr.onAuthenticated # Null =>
       qr.onAuthenticated.polled = qr.onAuthenticated.session.sessionId

====
